---- MODULE Spec2Model ----
(***************************************************************************)
(* A model of three pieces of the syft sources:                            *)
(*   - ProtocolExecution (syft/execution/protocol_execution.py),           *)
(*   - RunClassMethodService (syft/core/nodes/vm/service/                  *)
(*     run_class_service.py),                                              *)
(*   - Promise (syft/messaging/promise.py).                                *)
(* Each piece has its own specifications over its own variables; the      *)
(* variables of the other pieces are left unchanged:                       *)
(*   - SpecExec: execute() and the instantiation of placeholders,          *)
(*   - SpecInvoke, SpecKwargs: process() as one step, without and with     *)
(*     keyword arguments; SpecInterleaved: two process() calls on one      *)
(*     node, interleaved at every access to the store,                     *)
(*   - SpecPromise: keep() and value(); SpecSerde: simplify() and          *)
(*     detail().                                                           *)
(***************************************************************************)
EXTENDS Integers, Sequences, FiniteSets

VARIABLES
    \* ---- ProtocolExecution ----
    role,       \* the template Role: its actions and output_placeholder_ids
    role_placeholders,  \* role.placeholders: placeholder id -> child
    placeholders,       \* per execution: self.placeholders, id -> child
    next_action_index,  \* per execution: self._next_action_index
    ret,        \* per execution: what the last execute() call returned
    log,        \* per execution: the actions it ran to completion, in order
    blockedAt,  \* per execution: index of the action that raised in the last
                \* execute() call, -1 when none did
    dirty,      \* per execution: a placeholder of it was set since its last
                \* execute() call
    replayed,   \* per execution: execute() was called on it when Completed
    resumed,    \* per execution: an execute() call that started past index 0
                \* ran an action
    op,         \* the last operation performed
    \* ---- RunClassMethodService ----
    store,      \* per node: node.store, object id -> object
    lastMsg,    \* the RunClassMethodMessage of that process() call
    lastNode,   \* the node whose service processed it
    handed,     \* what that call handed to the method: self and args
    outcome,    \* how the last operation ended when it was a process()
                \* call: "ok", "NotFound", "MethodNotFound"; else "none"
    calls,      \* per caller: the process() call it has in progress on
                \* CallNode, and how far that call has got
    stored_order,   \* the callers whose call reached line 55, in the order
                \* in which they stored
    \* ---- Promise ----
    cfg,        \* the promises and plans the worker holds (fixed in a run)
    queue_obj_ids,      \* per promise: queue_obj_ids
    qused,      \* per promise, per queue entry: a plan was invoked with it
    owner_objects,    \* the ids of the data objects in owner._objects
    nextId,     \* the id the next plan result gets
    count,      \* per promise: appends by keep(), keep() calls that
                \* returned, value() calls that returned an object, value()
                \* calls that popped and raised, entries popped by firings
    nFired,     \* per plan: how often it was invoked
    flags,      \* what went wrong so far (see NoFlags)
    last,       \* the last operation and how it ended
    nOps,       \* the number of keep() and value() calls made so far
    wire        \* a promise, the last of simplify() and detail() applied,
                \* the tuple it read or wrote, and the promise detail() built

execVars == <<role, role_placeholders, placeholders, next_action_index, ret,
              log, blockedAt, dirty, replayed, resumed, op>>

invokeVars ==
    <<store, lastMsg, lastNode, handed, outcome, calls, stored_order>>

promiseVars == <<cfg, queue_obj_ids, qused, owner_objects, nextId, count,
                 nFired, flags, last, nOps, wire>>

(***************************************************************************)
(* Values.  A placeholder's child is None or one value.                    *)
(***************************************************************************)
None == <<>>
Some(v) == <<v>>
IsSet(child) == child # None


(***************************************************************************)
(*                        ProtocolExecution                                *)
(***************************************************************************)
Execs == {"E1", "E2"}
PhIds == {"a", "b", "c", "d", "e"}

\* The Role templates the executions are derived from.
AddAB == [name |-> "add", args |-> <<"a", "b">>, return_id |-> "c"]
AddCD == [name |-> "add", args |-> <<"c", "d">>, return_id |-> "e"]
RoleSingle == [actions |-> <<AddAB>>, output_placeholder_ids |-> <<"c">>]
RoleTwo == [actions |-> <<AddAB, AddCD>>,
            output_placeholder_ids |-> <<"e", "c">>]
RoleNoOut == [actions |-> <<AddAB, AddCD>>, output_placeholder_ids |-> <<>>]
Roles == {RoleSingle, RoleTwo, RoleNoOut}

\* The placeholders no action of the role returns: the role's inputs
InputIds(r) ==
    PhIds \ {r.actions[i].return_id : i \in 1..Len(r.actions)}

\* The value a caller binds to an input placeholder
InputVal(ph) == IF ph = "a" THEN 4 ELSE 3

\* ProtocolExecution.__init__: one copy per placeholder of the role, with
\* its child cleared
InitPlaceholders(rph) == [ph \in DOMAIN rph |-> None]

\* Role._execute_action raises PlaceholderNotInstantiatedError when an
\* operand placeholder has no value
Raises(ph, action) ==
    \E i \in 1..Len(action.args) : ~IsSet(ph[action.args[i]])

\* Role._execute_action(action): fetches the operands from the role's
\* placeholders, calls the method and instantiates the return placeholder
ActionResult(ph, action) ==
    ph[action.args[1]][1] + ph[action.args[2]][1]

ExecuteAction(ph, action) ==
    [ph EXCEPT ![action.return_id] = Some(ActionResult(ph, action))]

\* self.role.actions[self._next_action_index:] starts at the cursor
StartIndexFromZero(e) == 0
StartIndex(e) == next_action_index[e]

\* self._next_action_index += 1 comes after _execute_action returned, so it
\* is skipped when the action raised
CursorAfterAlways(i, raised) == i + 1
CursorAfter(i, raised) == IF raised THEN i ELSE i + 1

\* The loop of execute(): runs the actions from index i (0-based) on the
\* role's placeholders until one raises or the list ends
RECURSIVE RunActions(_, _, _)
RunActions(ph, i, ran) ==
    IF i >= Len(role.actions)
    THEN [ph |-> ph, idx |-> i, ran |-> ran, raisedAt |-> -1]
    ELSE LET action == role.actions[i + 1]
         IN  IF Raises(ph, action)
             THEN [ph |-> ph, idx |-> CursorAfter(i, TRUE), ran |-> ran,
                   raisedAt |-> i]
             ELSE RunActions(ExecuteAction(ph, action),
                             CursorAfter(i, FALSE),
                             Append(ran, [idx |-> i,
                                          ph |-> action.return_id,
                                          val |-> ActionResult(ph, action)]))

\* The tuple of the output placeholders' children, read from
\* self.placeholders
OutputTuple(e) ==
    [k \in 1..Len(role.output_placeholder_ids) |->
        placeholders[e][role.output_placeholder_ids[k]]]

NoCall == [called |-> FALSE, ok |-> FALSE, none |-> TRUE, val |-> <<>>]
Returned(ok, none, val) ==
    [called |-> TRUE, ok |-> ok, none |-> none, val |-> val]

\* ProtocolExecution.execute()
Execute(e) ==
    LET r == RunActions(role_placeholders, StartIndex(e), <<>>)
    IN  /\ role_placeholders' = r.ph
        /\ next_action_index' = [next_action_index EXCEPT ![e] = r.idx]
        /\ log' = [log EXCEPT ![e] = log[e] \o r.ran]
        /\ blockedAt' = [blockedAt EXCEPT ![e] = r.raisedAt]
        /\ ret' = [ret EXCEPT ![e] =
                     IF r.raisedAt >= 0
                     THEN Returned(FALSE, TRUE, <<>>)
                     ELSE IF Len(role.output_placeholder_ids) = 0
                          THEN Returned(TRUE, TRUE, <<>>)
                          ELSE Returned(TRUE, FALSE, OutputTuple(e))]
        /\ dirty' = [dirty EXCEPT ![e] = FALSE]
        /\ replayed' = [replayed EXCEPT ![e] =
                          replayed[e] \/ next_action_index[e] = Len(role.actions)]
        /\ resumed' = [resumed EXCEPT ![e] =
                         resumed[e] \/ (next_action_index[e] > 0 /\ Len(r.ran) > 0)]
        /\ op' = [name |-> "execute", e |-> e]
        /\ UNCHANGED <<role, placeholders, invokeVars, promiseVars>>

\* A caller instantiates an input placeholder of an execution
InstantiateExec(e, ph) ==
    /\ ph \in InputIds(role)
    /\ ~IsSet(placeholders[e][ph])
    /\ placeholders' = [placeholders EXCEPT ![e][ph] = Some(InputVal(ph))]
    /\ dirty' = [dirty EXCEPT ![e] = TRUE]
    /\ op' = [name |-> "instantiate", e |-> e]
    /\ UNCHANGED <<role, role_placeholders, next_action_index, ret, log,
                   blockedAt, replayed, resumed, invokeVars, promiseVars>>

\* A caller instantiates an input placeholder of the template Role
InstantiateRole(ph) ==
    /\ ph \in InputIds(role)
    /\ ~IsSet(role_placeholders[ph])
    /\ role_placeholders' = [role_placeholders EXCEPT ![ph] = Some(InputVal(ph))]
    /\ op' = [name |-> "instantiate", e |-> "role"]
    /\ UNCHANGED <<role, placeholders, next_action_index, ret, log, blockedAt,
                   dirty, replayed, resumed, invokeVars, promiseVars>>

InitExecWith(r) ==
    /\ role = r
    /\ role_placeholders = [ph \in PhIds |-> None]
    /\ placeholders = [e \in Execs |-> InitPlaceholders(role_placeholders)]
    /\ next_action_index = [e \in Execs |-> 0]
    /\ ret = [e \in Execs |-> NoCall]
    /\ log = [e \in Execs |-> <<>>]
    /\ blockedAt = [e \in Execs |-> -1]
    /\ dirty = [e \in Execs |-> FALSE]
    /\ replayed = [e \in Execs |-> FALSE]
    /\ resumed = [e \in Execs |-> FALSE]
    /\ op = [name |-> "init", e |-> "role"]

InitExec == \E r \in Roles : InitExecWith(r)

NextExec ==
    \/ \E e \in Execs : Execute(e)
    \/ \E e \in Execs, ph \in PhIds : InstantiateExec(e, ph)
    \/ \E ph \in PhIds : InstantiateRole(ph)

(***************************************************************************)
(*                       RunClassMethodService                             *)
(***************************************************************************)
Nodes == {"A", "B"}
ObjectIds == {7, 8}
Objects == {42, 99}
Paths == {"max", "missing"}

\* A Pointer names an object by the node that owns it and its id there;
\* any other argument is a plain value
Pointer(location, id) ==
    [ptr |-> TRUE, location |-> location, id_at_location |-> id, val |-> 0]
Plain(v) == [ptr |-> FALSE, location |-> "", id_at_location |-> 0, val |-> v]
ArgValues == {Pointer(n, k) : n \in Nodes, k \in ObjectIds} \cup {Plain(42)}

\* The messages sent: a receiver, no or one positional argument, no or one
\* keyword argument (msg.kwargs, as its items), a method path and the id
\* the result is to be stored under
ArgLists == {<<>>} \cup {<<a>> : a \in ArgValues}
KwargLists ==
    {<<>>} \cup {<<[name |-> "key", value |-> a]>> :
                    a \in {Plain(42), Pointer("A", 7)}}
Messages ==
    [_self : ArgValues, args : ArgLists, kwargs : {<<>>}, path : Paths,
     id_at_location : ObjectIds]
KwargMessages ==
    [_self : {Plain(42), Pointer("A", 7)}, args : {<<>>},
     kwargs : KwargLists, path : Paths, id_at_location : ObjectIds]

\* node.store.get_object(id) raises when the id is absent
HasObject(st, id) == id \in DOMAIN st
GetObject(st, id) == st[id]

\* node.store.store_object(id, obj): overwrites
StoreObject(st, id, obj) ==
    [k \in DOMAIN st \cup {id} |-> IF k = id THEN obj ELSE st[k]]

\* The store a Pointer argument is looked up in: process() reads
\* node.store, the store of the node running the service, whatever the
\* pointer's location is
LookupStore(node, arg) == store[node]

\* Steps 1a and 1b: an argument that is a Pointer is replaced by the object
\* under its id_at_location, any other argument is kept as it is
Missing(node, arg) ==
    arg.ptr /\ ~HasObject(LookupStore(node, arg), arg.id_at_location)
Resolve(node, arg) ==
    IF arg.ptr
    THEN GetObject(LookupStore(node, arg), arg.id_at_location)
    ELSE arg.val

\* node.frameworks(path): the dispatch table; "max" is the one method
HasMethod(path) == path = "max"
RECURSIVE MaxOf(_, _)
MaxOf(x, rest) ==
    IF rest = <<>> THEN x
    ELSE MaxOf(IF rest[1] > x THEN rest[1] ELSE x, Tail(rest))
CallMethod(path, selfObj, argObjs) == MaxOf(selfObj, argObjs)

\* Line 25 and step 1c: kwargs_with_objects starts as the empty dict, and
\* the loop of step 1c runs over kwargs_with_objects itself, so it has no
\* item to resolve; msg.kwargs is never read (line 17 is a comment)
KwargsWithObjects(node, msg) == <<>>

\* Step 3: node.store.store_object(result_id_at_location, result)
StoreResultIfAbsent(st, msg, result) ==
    IF HasObject(st, msg.id_at_location) THEN st
    ELSE StoreObject(st, msg.id_at_location, result)
StoreResult(st, msg, result) == StoreObject(st, msg.id_at_location, result)

NothingHanded ==
    [called |-> FALSE, self |-> 0, args |-> <<>>, kwargs |-> <<>>]
NoMessage ==
    [_self |-> Plain(0), args |-> <<>>, kwargs |-> <<>>, path |-> "",
     id_at_location |-> 0]

\* process() with step 3 entered before steps 1 and 2 have succeeded: a
\* call that fails leaves an entry under the result id
ProcessStoringOnFailure(node, msg) ==
    LET notFound ==
            \/ Missing(node, msg._self)
            \/ \E i \in 1..Len(msg.args) : Missing(node, msg.args[i])
        selfObj == Resolve(node, msg._self)
        argObjs == [i \in 1..Len(msg.args) |-> Resolve(node, msg.args[i])]
    IN  /\ UNCHANGED <<calls, stored_order, execVars, promiseVars>>
        /\ lastMsg' = msg
        /\ lastNode' = node
        /\ handed' = IF notFound \/ ~HasMethod(msg.path) THEN NothingHanded
                     ELSE [called |-> TRUE, self |-> selfObj,
                           args |-> argObjs,
                           kwargs |-> KwargsWithObjects(node, msg)]
        /\ outcome' = IF notFound THEN "NotFound"
                      ELSE IF ~HasMethod(msg.path) THEN "MethodNotFound"
                      ELSE "ok"
        /\ store' = [store EXCEPT ![node] =
                       StoreResult(store[node], msg,
                           IF notFound \/ ~HasMethod(msg.path) THEN 0
                           ELSE CallMethod(msg.path, selfObj, argObjs))]

\* RunClassMethodService.process(node, msg)
Process(node, msg) ==
    LET notFound ==
            \/ Missing(node, msg._self)
            \/ \E i \in 1..Len(msg.args) : Missing(node, msg.args[i])
        selfObj == Resolve(node, msg._self)
        argObjs == [i \in 1..Len(msg.args) |-> Resolve(node, msg.args[i])]
    IN  /\ UNCHANGED <<calls, stored_order, execVars, promiseVars>>
        /\ lastMsg' = msg
        /\ lastNode' = node
        /\ IF notFound
           THEN /\ outcome' = "NotFound"
                /\ handed' = NothingHanded
                /\ UNCHANGED store
           ELSE IF ~HasMethod(msg.path)
           THEN /\ outcome' = "MethodNotFound"
                /\ handed' = NothingHanded
                /\ UNCHANGED store
           ELSE /\ outcome' = "ok"
                /\ handed' = [called |-> TRUE, self |-> selfObj,
                              args |-> argObjs,
                              kwargs |-> KwargsWithObjects(node, msg)]
                /\ store' = [store EXCEPT ![node] =
                               StoreResult(store[node], msg,
                                   CallMethod(msg.path, selfObj, argObjs))]

\* An object is put into a node's store, or removed from it
PutObject(node, id, obj) ==
    /\ store' = [store EXCEPT ![node] = StoreObject(store[node], id, obj)]
    /\ lastMsg' = NoMessage
    /\ lastNode' = ""
    /\ handed' = NothingHanded
    /\ outcome' = "none"
    /\ UNCHANGED <<calls, stored_order, execVars, promiseVars>>

RemoveObject(node, id) ==
    /\ HasObject(store[node], id)
    /\ store' = [store EXCEPT ![node] =
                   [k \in DOMAIN store[node] \ {id} |-> store[node][k]]]
    /\ lastMsg' = NoMessage
    /\ lastNode' = ""
    /\ handed' = NothingHanded
    /\ outcome' = "none"
    /\ UNCHANGED <<calls, stored_order, execVars, promiseVars>>

NextKwargs ==
    \/ \E n \in Nodes, msg \in KwargMessages : Process(n, msg)
    \/ \E n \in Nodes, k \in ObjectIds, v \in Objects : PutObject(n, k, v)
    \/ \E n \in Nodes, k \in ObjectIds : RemoveObject(n, k)

\* Two callers whose process() calls on one node run interleaved
Callers == {"c1", "c2"}
CallNode == "B"
InterleavedMessages ==
    [_self : {Pointer("B", 7), Plain(42)},
     args : {<<>>, <<Pointer("B", 8)>>}, kwargs : {<<>>}, path : Paths,
     id_at_location : ObjectIds]

IdleCall ==
    [pc |-> "idle", msg |-> NoMessage, self |-> 0, args |-> <<>>,
     result |-> 0]

InitInvoke ==
    /\ store = [n \in Nodes |-> <<>>]
    /\ lastMsg = NoMessage
    /\ lastNode = ""
    /\ handed = NothingHanded
    /\ outcome = "none"
    /\ calls = [c \in Callers |-> IdleCall]
    /\ stored_order = <<>>

\* process(node, msg) run by caller c, one step per read or write of
\* node.store.  A caller sends msg to CallNode.
Begin(c, msg) ==
    /\ calls[c].pc = "idle"
    /\ calls' = [calls EXCEPT ![c] = [IdleCall EXCEPT !.pc = "self",
                                                      !.msg = msg]]
    /\ UNCHANGED <<store, stored_order, lastMsg, lastNode, handed, outcome,
                   execVars, promiseVars>>

\* Step 1a, lines 28-33
ResolveSelf(c) ==
    /\ calls[c].pc = "self"
    /\ calls' = [calls EXCEPT ![c] =
                   IF Missing(CallNode, calls[c].msg._self)
                   THEN [@ EXCEPT !.pc = "NotFound"]
                   ELSE [@ EXCEPT !.pc = "args",
                                  !.self = Resolve(CallNode,
                                                   calls[c].msg._self)]]
    /\ UNCHANGED <<store, stored_order, lastMsg, lastNode, handed, outcome,
                   execVars, promiseVars>>

\* Step 1b, lines 36-40
ResolveArgs(c) ==
    LET args == calls[c].msg.args
    IN  /\ calls[c].pc = "args"
        /\ calls' = [calls EXCEPT ![c] =
                       IF \E i \in 1..Len(args) : Missing(CallNode, args[i])
                       THEN [@ EXCEPT !.pc = "NotFound"]
                       ELSE [@ EXCEPT !.pc = "call",
                                      !.args = [i \in 1..Len(args) |->
                                                  Resolve(CallNode, args[i])]]]
        /\ UNCHANGED <<store, stored_order, lastMsg, lastNode, handed,
                       outcome, execVars, promiseVars>>

\* Step 2, lines 50-52
CallStep(c) ==
    /\ calls[c].pc = "call"
    /\ calls' = [calls EXCEPT ![c] =
                   IF ~HasMethod(calls[c].msg.path)
                   THEN [@ EXCEPT !.pc = "MethodNotFound"]
                   ELSE [@ EXCEPT !.pc = "store",
                                  !.result = CallMethod(calls[c].msg.path,
                                                        calls[c].self,
                                                        calls[c].args)]]
    /\ UNCHANGED <<store, stored_order, lastMsg, lastNode, handed, outcome,
                   execVars, promiseVars>>

\* Step 3, line 55
StoreStep(c) ==
    /\ calls[c].pc = "store"
    /\ store' = [store EXCEPT ![CallNode] =
                   StoreResult(@, calls[c].msg, calls[c].result)]
    /\ calls' = [calls EXCEPT ![c].pc = "done"]
    /\ stored_order' = Append(stored_order, c)
    /\ UNCHANGED <<lastMsg, lastNode, handed, outcome, execVars,
                   promiseVars>>

\* CallNode holds an object under id 7 and none under id 8
InitInterleaved ==
    /\ store = [n \in Nodes |->
                  IF n = CallNode THEN StoreObject(<<>>, 7, 99) ELSE <<>>]
    /\ lastMsg = NoMessage
    /\ lastNode = ""
    /\ handed = NothingHanded
    /\ outcome = "none"
    /\ calls = [c \in Callers |-> IdleCall]
    /\ stored_order = <<>>

NextInterleaved ==
    \/ \E c \in Callers, msg \in InterleavedMessages : Begin(c, msg)
    \/ \E c \in Callers : ResolveSelf(c)
    \/ \E c \in Callers : ResolveArgs(c)
    \/ \E c \in Callers : CallStep(c)
    \/ \E c \in Callers : StoreStep(c)

NextInvoke ==
    \/ \E n \in Nodes, msg \in Messages : Process(n, msg)
    \/ \E n \in Nodes, k \in ObjectIds, v \in Objects : PutObject(n, k, v)
    \/ \E n \in Nodes, k \in ObjectIds : RemoveObject(n, k)


(***************************************************************************)
(*                               Promise                                   *)
(***************************************************************************)
MaxOps == 4
MaxDepth == 3
NObj == 3

Promises == {"P", "Q", "R", "S"}
PlanIds == {1, 2}

\* The objects a caller keeps promises with: obj.id and obj.type()
ObjType(id) == IF id = NObj THEN "str" ELSE "int"
KeptObjects == {[id |-> i, type |-> ObjType(i)] : i \in 1..NObj}

\* A Plan: per argument position either the promise it is bound to
\* (promised_args[i]) or the id of the object to read (arg_ids[i]), the
\* promise its result is kept in, and the type of its result
Promised(p) == [promised |-> TRUE, promise |-> p, arg_id |-> 0]
Direct(id) == [promised |-> FALSE, promise |-> "", arg_id |-> id]
Plan(args, out, type) ==
    [args |-> args, promise_out_id |-> out, result_type |-> type]

\* The worker's promises and plans: per promise its obj_type and its plans
\* in iteration order, the promises registered in owner._objects, and the
\* data objects owner._objects holds at the start
AllInt == [p \in Promises |-> "int"]
NoPlans == [p \in Promises |-> <<>>]

\* one plan waiting on P and Q
CfgPair ==
    [plans |-> <<Plan(<<Promised("P"), Promised("Q")>>, "R", "int")>>,
     waiting |-> [NoPlans EXCEPT !["P"] = <<1>>, !["Q"] = <<1>>],
     obj_type |-> AllInt, stored |-> Promises, owner_objects |-> {}]

\* two plans waiting on the same promise
CfgShared ==
    [plans |-> <<Plan(<<Promised("P")>>, "R", "int"),
                 Plan(<<Promised("P")>>, "S", "int")>>,
     waiting |-> [NoPlans EXCEPT !["P"] = <<2, 1>>],
     obj_type |-> AllInt, stored |-> Promises, owner_objects |-> {}]

\* a plan whose output promise feeds a second plan, which also reads the
\* object with id 1 directly
CfgChain ==
    [plans |-> <<Plan(<<Promised("P"), Promised("Q")>>, "R", "int"),
                 Plan(<<Promised("R"), Direct(1)>>, "S", "int")>>,
     waiting |-> [NoPlans EXCEPT !["P"] = <<1>>, !["Q"] = <<1>>,
                                 !["R"] = <<2>>],
     obj_type |-> AllInt, stored |-> Promises, owner_objects |-> {1}]

\* a plan called with the same promise at two argument positions
CfgDup ==
    [plans |-> <<Plan(<<Promised("P"), Promised("P"), Promised("Q")>>,
                      "R", "int")>>,
     waiting |-> [NoPlans EXCEPT !["P"] = <<1>>, !["Q"] = <<1>>],
     obj_type |-> AllInt, stored |-> Promises, owner_objects |-> {}]

\* a promise that is not registered in owner._objects, and one of type str
CfgUnstored ==
    [plans |-> <<Plan(<<Promised("Q")>>, "R", "int")>>,
     waiting |-> [NoPlans EXCEPT !["Q"] = <<1>>],
     obj_type |-> [AllInt EXCEPT !["S"] = "str"],
     stored |-> Promises \ {"P"}, owner_objects |-> {}]

\* a plan with no promised argument, listed in the plans of P
CfgDirect ==
    [plans |-> <<Plan(<<Direct(1)>>, "R", "int")>>,
     waiting |-> [NoPlans EXCEPT !["P"] = <<1>>],
     obj_type |-> AllInt, stored |-> Promises, owner_objects |-> {1}]

\* a plan whose result is an int and whose output promise S promises a str
CfgMistyped ==
    [plans |-> <<Plan(<<Promised("P"), Promised("Q")>>, "S", "int")>>,
     waiting |-> [NoPlans EXCEPT !["P"] = <<1>>, !["Q"] = <<1>>],
     obj_type |-> [AllInt EXCEPT !["S"] = "str"],
     stored |-> Promises, owner_objects |-> {}]

\* a plan whose output promise is its own promised input
CfgSelf ==
    [plans |-> <<Plan(<<Promised("P")>>, "P", "int")>>,
     waiting |-> [NoPlans EXCEPT !["P"] = <<1>>],
     obj_type |-> AllInt, stored |-> Promises, owner_objects |-> {}]

\* two plans, each feeding the input promise of the other
CfgCycle ==
    [plans |-> <<Plan(<<Promised("P")>>, "Q", "int"),
                 Plan(<<Promised("Q")>>, "P", "int")>>,
     waiting |-> [NoPlans EXCEPT !["P"] = <<1>>, !["Q"] = <<2>>],
     obj_type |-> AllInt, stored |-> Promises, owner_objects |-> {}]

Configs ==
    {CfgPair, CfgShared, CfgChain, CfgDup, CfgUnstored, CfgDirect,
     CfgMistyped, CfgSelf, CfgCycle}

PlanOf(pid) == cfg.plans[pid]

\* promised_args.values(): the promises of the promised positions, in
\* position order
IsPromised(arg) == arg.promised
PromisedArgs(plan) ==
    LET ps == SelectSeq(plan.args, IsPromised)
    IN  [k \in 1..Len(ps) |-> ps[k].promise]

Range(f) == {f[x] : x \in DOMAIN f}

NoCounts ==
    [appended |-> [p \in Promises |-> 0], kept |-> [p \in Promises |-> 0],
     valueRet |-> [p \in Promises |-> 0], valueRaised |-> [p \in Promises |-> 0],
     firePops |-> [p \in Promises |-> 0]]

\* reused: a plan was invoked with a queue entry an earlier invocation was
\*   given; valueReused: value() returned such an entry; leftInStore: an
\*   object a plan was invoked with was still in the store when the firing
\*   ended; pureKeeps: every call so far was a keep() of an int on P or Q
NoFlags ==
    [reused |-> FALSE, valueReused |-> FALSE, leftInStore |-> FALSE,
     pureKeeps |-> TRUE]

\* The worker's state, as the operators below thread it through a keep()
Current ==
    [queue_obj_ids |-> queue_obj_ids, qused |-> qused, owner_objects |-> owner_objects,
     nextId |-> nextId, count |-> count, nFired |-> nFired, flags |-> flags,
     status |-> "ok"]

Raise(s, error) == [s EXCEPT !.status = error]

\* owner.register_obj(obj), owner.rm_obj(id)
RegisterObj(s, id) == [s EXCEPT !.owner_objects = @ \cup {id}]
RmObj(s, id) == [s EXCEPT !.owner_objects = @ \ {id}]

\* queue_obj_ids.pop(0)
PopKeepsFront(q) == q
PopFront(q) == Tail(q)

\* keep(), lines 53-62: the type check, then the registration of the
\* object when the promise's own id is in owner._objects, then the append
EnqueueThenCheck(s, p, obj) ==
    LET s1 == IF p \in cfg.stored THEN RegisterObj(s, obj.id) ELSE s
        s2 == [s1 EXCEPT !.queue_obj_ids[p] = Append(@, obj.id),
                         !.qused[p] = Append(@, FALSE),
                         !.count.appended[p] = @ + 1]
    IN  IF obj.type # cfg.obj_type[p] THEN Raise(s2, "TypeError") ELSE s2
CheckedEnqueue(s, p, obj) ==
    IF obj.type # cfg.obj_type[p]
    THEN Raise(s, "TypeError")
    ELSE LET s1 == IF p \in cfg.stored THEN RegisterObj(s, obj.id) ELSE s
         IN  [s1 EXCEPT !.queue_obj_ids[p] = Append(@, obj.id),
                        !.qused[p] = Append(@, FALSE),
                        !.count.appended[p] = @ + 1]

\* plan.has_args_fulfilled(): every promised position's promise is kept
HasArgsFulfilled(s, plan) ==
    \A i \in 1..Len(plan.args) :
        plan.args[i].promised => s.queue_obj_ids[plan.args[i].promise] # <<>>

\* keep(), lines 72-77: the lookups made while the arguments are collected,
\* position by position: "ok", or the first error raised
RECURSIVE CollectArgs(_, _, _)
CollectArgs(s, plan, i) ==
    IF i > Len(plan.args) THEN "ok"
    ELSE LET a == plan.args[i]
         IN  IF a.promised
             THEN IF a.promise \notin cfg.stored THEN "KeyError"
                  ELSE IF s.queue_obj_ids[a.promise] = <<>> THEN "IndexError"
                  ELSE IF s.queue_obj_ids[a.promise][1] \notin s.owner_objects
                       THEN "KeyError"
                  ELSE CollectArgs(s, plan, i + 1)
             ELSE IF a.arg_id \notin s.owner_objects THEN "KeyError"
                  ELSE CollectArgs(s, plan, i + 1)

\* keep(), line 78: result = plan(*args), the arguments of the promised
\* positions being the front entries of their promises' queues
Invoke(s, pid) ==
    LET ps == Range(PromisedArgs(PlanOf(pid)))
    IN  [s EXCEPT !.nFired[pid] = @ + 1,
                  !.nextId = @ + 1,
                  !.flags.reused = @ \/ \E p \in ps : s.qused[p][1],
                  !.qused = [p \in Promises |->
                               IF p \in ps
                               THEN [s.qused[p] EXCEPT ![1] = TRUE]
                               ELSE s.qused[p]]]

\* keep(), lines 81-83: per promised position, pop the front of the
\* promise's queue and remove that object from the store
RECURSIVE PopArgs(_, _, _)
PopArgs(s, ps, k) ==
    IF k > Len(ps) THEN s
    ELSE LET p == ps[k]
         IN  IF s.queue_obj_ids[p] = <<>> THEN Raise(s, "IndexError")
             ELSE PopArgs(
                    RmObj([s EXCEPT !.queue_obj_ids[p] = PopFront(@),
                                    !.qused[p] = PopFront(@),
                                    !.count.firePops[p] = @ + 1],
                          s.queue_obj_ids[p][1]),
                    ps, k + 1)

\* keep(self, obj), called at recursion depth depth; the loop over
\* self.plans from its i-th plan on; and the firing of one plan
RECURSIVE KeepRec(_, _, _, _)
RECURSIVE PlansLoop(_, _, _, _)
RECURSIVE Fire(_, _, _)

\* Fire without line 84: the result is appended to the output promise's
\* queue and the plans waiting on that promise are not looked at
FireNoCascade(s, pid, depth) ==
    LET plan == PlanOf(pid)
        collected == CollectArgs(s, plan, 1)
    IN  IF collected # "ok" THEN Raise(s, collected)
        ELSE LET result == [id |-> s.nextId, type |-> plan.result_type]
                 s1 == PopArgs(Invoke(s, pid), PromisedArgs(plan), 1)
             IN  IF s1.status # "ok" THEN s1
                 ELSE CheckedEnqueue(s1, plan.promise_out_id, result)

Fire(s, pid, depth) ==
    LET plan == PlanOf(pid)
        collected == CollectArgs(s, plan, 1)
    IN  IF collected # "ok" THEN Raise(s, collected)
        ELSE LET passed == {s.queue_obj_ids[p][1] : p \in Range(PromisedArgs(plan))}
                 result == [id |-> s.nextId, type |-> plan.result_type]
                 s1 == PopArgs(Invoke(s, pid), PromisedArgs(plan), 1)
                 s2 == [s1 EXCEPT !.flags.leftInStore =
                                     @ \/ passed \cap s1.owner_objects # {}]
             IN  IF s2.status # "ok" THEN s2
                 ELSE IF plan.promise_out_id \notin cfg.stored
                      THEN Raise(s2, "KeyError")
                 ELSE KeepRec(s2, plan.promise_out_id, result, depth + 1)

PlansLoop(s, p, i, depth) ==
    IF s.status # "ok" \/ i > Len(cfg.waiting[p]) THEN s
    ELSE LET pid == cfg.waiting[p][i]
         IN  PlansLoop(IF HasArgsFulfilled(s, PlanOf(pid))
                       THEN Fire(s, pid, depth)
                       ELSE s,
                       p, i + 1, depth)

\* A keep() nested deeper than MaxDepth stands for a recursion that the
\* interpreter's recursion limit ends with RecursionError
KeepRec(s, p, obj, depth) ==
    IF depth > MaxDepth THEN Raise(s, "RecursionError")
    ELSE LET s1 == CheckedEnqueue(s, p, obj)
             s2 == PlansLoop(s1, p, 1, depth)
         IN  IF s1.status # "ok" THEN s1
             ELSE IF s2.status # "ok" THEN s2
             ELSE [s2 EXCEPT !.count.kept[p] = @ + 1]

\* A caller's promise.keep(obj)
Keep(p, obj) ==
    LET r == KeepRec(Current, p, obj, 1)
    IN  /\ nOps < MaxOps
        /\ nOps' = nOps + 1
        /\ queue_obj_ids' = r.queue_obj_ids
        /\ qused' = r.qused
        /\ owner_objects' = r.owner_objects
        /\ nextId' = r.nextId
        /\ count' = r.count
        /\ nFired' = r.nFired
        /\ flags' = [r.flags EXCEPT !.pureKeeps =
                        @ /\ p \in {"P", "Q"} /\ obj.type = cfg.obj_type[p]]
        /\ last' = [op |-> "keep", p |-> p, id |-> obj.id,
                    status |-> r.status]
        /\ UNCHANGED <<cfg, wire, execVars, invokeVars>>

\* promise.value(), lines 94-102
Value(p) ==
    /\ nOps < MaxOps
    /\ nOps' = nOps + 1
    /\ flags' = [flags EXCEPT
                   !.pureKeeps = FALSE,
                   !.valueReused = @ \/ ( /\ queue_obj_ids[p] # <<>>
                                          /\ queue_obj_ids[p][1] \in owner_objects
                                          /\ qused[p][1] )]
    /\ IF queue_obj_ids[p] = <<>>
       THEN /\ last' = [op |-> "value", p |-> p, id |-> 0, status |-> "None"]
            /\ UNCHANGED <<queue_obj_ids, qused, owner_objects, count>>
       ELSE /\ queue_obj_ids' = [queue_obj_ids EXCEPT ![p] = PopFront(@)]
            /\ qused' = [qused EXCEPT ![p] = PopFront(@)]
            /\ IF queue_obj_ids[p][1] \in owner_objects
               THEN /\ owner_objects' = owner_objects \ {queue_obj_ids[p][1]}
                    /\ count' = [count EXCEPT !.valueRet[p] = @ + 1]
                    /\ last' = [op |-> "value", p |-> p, id |-> queue_obj_ids[p][1],
                                status |-> "ok"]
               ELSE /\ count' = [count EXCEPT !.valueRaised[p] = @ + 1]
                    /\ last' = [op |-> "value", p |-> p, id |-> queue_obj_ids[p][1],
                                status |-> "KeyError"]
                    /\ UNCHANGED owner_objects
    /\ UNCHANGED <<cfg, nextId, nFired, wire, execVars, invokeVars>>

\* Promise.__init__(owner, id, obj_id, obj_type, plans), every argument
\* None or Some(value): obj_id is not kept in any attribute, and plans
\* defaults to the empty set.  (An id of None is replaced by a fresh one;
\* here every promise is built with an id.)
PromiseInit(owner, id, obj_id, obj_type, plans) ==
    [owner |-> owner, id |-> id, queue_obj_ids |-> <<>>,
     obj_type |-> obj_type,
     plans |-> IF plans = None THEN {} ELSE plans[1]]

\* sy.serde._simplify of a set of plan ids: the tuple of its elements;
\* sy.serde._detail gives the tuple back, and set() its elements
RECURSIVE SimplifyPlans(_)
SimplifyPlans(S) ==
    IF S = {} THEN <<>>
    ELSE LET m == CHOOSE x \in S : \A y \in S : x <= y
         IN  <<m>> \o SimplifyPlans(S \ {m})
DetailPlans(t) == Range(t)

NoPromise == PromiseInit(None, None, None, None, None)

\* Promise.simplify(promise), line 133: reads promise.id, promise.obj_id
\* and promise.plans
Simplify(promise) ==
    IF "obj_id" \notin DOMAIN promise
    THEN [status |-> "AttributeError", tuple |-> <<>>]
    ELSE [status |-> "ok",
          tuple |-> <<promise.id, promise.obj_id,
                      SimplifyPlans(promise.plans)>>]

\* Promise.detail(worker, promise_tuple), line 151: three positional
\* arguments to Promise(), which are owner, id and obj_id, the third
\* built from promise_tuple[3], the fourth element of the tuple
Detail(worker, promise_tuple) ==
    IF Len(promise_tuple) < 4
    THEN [status |-> "IndexError", promise |-> NoPromise]
    ELSE [status |-> "ok",
          promise |-> PromiseInit(promise_tuple[1], promise_tuple[2],
                                  Some(DetailPlans(promise_tuple[4])),
                                  None, None)]

\* The promises serialized, and the tuples a peer sends: of the three
\* elements (id, obj_type, plans), and of the four elements (id, obj_id,
\* obj_type, plans); an element is None or Some(value)
ObjTypes == {"int", "str"}
WirePromises ==
    {PromiseInit(Some("w"), Some(id), None, Some(t), Some(ps)) :
        id \in Promises, t \in ObjTypes, ps \in SUBSET PlanIds}
WireTuple(promise) ==
    <<promise.id, promise.obj_type, SimplifyPlans(promise.plans)>>
WireTuples ==
    {WireTuple(w) : w \in WirePromises} \cup
    {<<Some(id), Some("x"), Some(t), SimplifyPlans(ps)>> :
        id \in {"P"}, t \in ObjTypes, ps \in SUBSET PlanIds}

NoWire ==
    [op |-> "init", promise |-> NoPromise, status |-> "ok", tuple |-> <<>>,
     detailed |-> NoPromise]

\* simplify() is applied to the promise
SimplifyStep ==
    LET r == Simplify(wire.promise)
    IN  /\ wire' = [wire EXCEPT !.op = "simplify", !.status = r.status,
                                !.tuple = r.tuple, !.detailed = NoPromise]
        /\ UNCHANGED <<cfg, queue_obj_ids, qused, owner_objects, nextId,
                       count, nFired, flags, last, nOps, execVars,
                       invokeVars>>

\* detail() is applied to a tuple
DetailStep(t) ==
    LET r == Detail("w", t)
    IN  /\ wire' = [wire EXCEPT !.op = "detail", !.status = r.status,
                                !.tuple = t, !.detailed = r.promise]
        /\ UNCHANGED <<cfg, queue_obj_ids, qused, owner_objects, nextId,
                       count, nFired, flags, last, nOps, execVars,
                       invokeVars>>

NextSerde ==
    \/ SimplifyStep
    \/ \E t \in WireTuples : DetailStep(t)

InitPromiseWith(c) ==
    /\ wire = NoWire
    /\ cfg = c
    /\ queue_obj_ids = [p \in Promises |-> <<>>]
    /\ qused = [p \in Promises |-> <<>>]
    /\ owner_objects = c.owner_objects
    /\ nextId = NObj + 1
    /\ count = NoCounts
    /\ nFired = [pid \in PlanIds |-> 0]
    /\ flags = NoFlags
    /\ last = [op |-> "init", p |-> "", id |-> 0, status |-> "ok"]
    /\ nOps = 0

InitPromise == \E c \in Configs : InitPromiseWith(c)

NextPromise ==
    \/ \E p \in Promises, obj \in KeptObjects : Keep(p, obj)
    \/ \E p \in Promises : Value(p)

(***************************************************************************)
(* Specifications.  Each runs one piece and holds the others at their      *)
(* initial state.                                                          *)
(***************************************************************************)
vars == <<execVars, invokeVars, promiseVars>>

InitForExec == InitExec /\ InitInvoke /\ InitPromiseWith(CfgPair)
SpecExec == InitForExec /\ [][NextExec]_vars

InitForInvoke ==
    InitExecWith(RoleSingle) /\ InitInvoke /\ InitPromiseWith(CfgPair)
SpecInvoke == InitForInvoke /\ [][NextInvoke]_vars

SpecKwargs == InitForInvoke /\ [][NextKwargs]_vars

InitForInterleaved ==
    InitExecWith(RoleSingle) /\ InitInterleaved /\ InitPromiseWith(CfgPair)
SpecInterleaved == InitForInterleaved /\ [][NextInterleaved]_vars

InitForSerde ==
    /\ InitExecWith(RoleSingle) /\ InitInvoke
    /\ \E w \in WirePromises :
          /\ wire = [NoWire EXCEPT !.promise = w]
          /\ cfg = CfgPair
          /\ queue_obj_ids = [p \in Promises |-> <<>>]
          /\ qused = [p \in Promises |-> <<>>]
          /\ owner_objects = {}
          /\ nextId = NObj + 1
          /\ count = NoCounts
          /\ nFired = [pid \in PlanIds |-> 0]
          /\ flags = NoFlags
          /\ last = [op |-> "init", p |-> "", id |-> 0, status |-> "ok"]
          /\ nOps = 0
SpecSerde == InitForSerde /\ [][NextSerde]_vars

InitForPromise == InitExecWith(RoleSingle) /\ InitInvoke /\ InitPromise
SpecPromise == InitForPromise /\ [][NextPromise]_vars

(***************************************************************************)
(* Claims about RunClassMethodService, checked under SpecInvoke.           *)
(***************************************************************************)
\* What the method must be handed for argument arg: the object stored
\* under the pointer's id in the store of the pointer's location, or the
\* argument itself when it is no Pointer
HandedFromLocation(arg, obj) ==
    IF arg.ptr
    THEN /\ HasObject(store[arg.location], arg.id_at_location)
         /\ obj = GetObject(store[arg.location], arg.id_at_location)
    ELSE obj = arg.val

\* C1: when the service on a node processes an invoke whose receiver or
\* positional argument is a Pointer {location: A, id_at_location: k}, the
\* method is handed the object stored under k in A's store; an argument
\* that is not a Pointer is handed over unchanged.
C1_PointerResolvesAtLocation ==
    [][outcome' = "ok" =>
          /\ HandedFromLocation(lastMsg'._self, handed'.self)
          /\ Len(handed'.args) = Len(lastMsg'.args)
          /\ \A i \in 1..Len(lastMsg'.args) :
                HandedFromLocation(lastMsg'.args[i], handed'.args[i])]_invokeVars

(***************************************************************************)
(* Claims about ProtocolExecution, checked under SpecExec.                 *)
(***************************************************************************)
IsExecuteStep(e) == op'.name = "execute" /\ op'.e = e
Completed(e) == next_action_index[e] = Len(role.actions)

\* The value the actions run by e last bound to placeholder ph
LastBound(e, ph) ==
    LET at == {i \in 1..Len(log[e]) : log[e][i].ph = ph}
    IN  log[e][CHOOSE i \in at : \A j \in at : j <= i].val

\* C2: when execute() reaches the end of the action list of a Role with
\* outputs, it returns (true, t), t holding in output order the values the
\* executed actions bound to the output placeholders; and for the Role with
\* the single action add(ph_a, ph_b) -> ph_c, once ph_a = 4 and ph_b = 3
\* are set on the execution, execute() returns (true, (7,)).
C2_OutputsAreBoundValues ==
    \A e \in Execs :
        /\ (ret[e].called /\ ret[e].ok /\ ~ret[e].none) =>
              ret[e].val = [k \in 1..Len(role.output_placeholder_ids) |->
                              Some(LastBound(e, role.output_placeholder_ids[k]))]
        /\ ( /\ role = RoleSingle
             /\ op = [name |-> "execute", e |-> e]
             /\ placeholders[e]["a"] = Some(4)
             /\ placeholders[e]["b"] = Some(3) ) =>
              ret[e] = Returned(TRUE, FALSE, <<Some(7)>>)

\* C3: executions derived from one Role are isolated: an execute() call of
\* one execution changes neither the placeholder values of the template
\* Role nor the placeholders or the last result of a sibling execution.
C3_ExecutionsIsolated ==
    [][\A e \in Execs :
          IsExecuteStep(e) =>
              /\ role_placeholders' = role_placeholders
              /\ \A f \in Execs \ {e} :
                    placeholders'[f] = placeholders[f] /\ ret'[f] = ret[f]]_execVars

\* C4: if the action at index i reads a placeholder that has no value,
\* execute() returns (false, none) with next_action_index equal to i: the
\* actions before i are counted and have run, action i is not counted.
C4_BlockedKeepsCursor ==
    \A e \in Execs :
        blockedAt[e] >= 0 =>
            /\ ret[e] = Returned(FALSE, TRUE, <<>>)
            /\ next_action_index[e] = blockedAt[e]
            /\ Len(log[e]) = blockedAt[e]

\* An execution that ran action 0 and halted at action 1
C4_Witness ==
    \E e \in Execs :
        /\ blockedAt[e] = 1
        /\ next_action_index[e] = 1
        /\ ret[e] = Returned(FALSE, TRUE, <<>>)

\* C5: execute() on a Completed execution whose placeholders were not
\* touched since the previous call runs no action, leaves the cursor
\* unchanged and returns the same (true, outputs) result again.
C5_ReplayIsNoOp ==
    [][\A e \in Execs :
          (IsExecuteStep(e) /\ Completed(e) /\ ~dirty[e]) =>
              /\ log'[e] = log[e]
              /\ next_action_index'[e] = next_action_index[e]
              /\ ret'[e] = ret[e]
              /\ ret'[e].ok
              /\ role_placeholders' = role_placeholders]_execVars

\* A Completed execution with outputs on which execute() was called again
C5_Witness ==
    \E e \in Execs :
        /\ replayed[e]
        /\ op = [name |-> "execute", e |-> e]
        /\ ret[e].ok /\ ~ret[e].none
        /\ Len(log[e]) = Len(role.actions)

\* C6: over any sequence of execute() calls the cursor never decreases and
\* stays within 0..len(actions), and the actions run to completion are
\* exactly those before the cursor, each once and in declaration order.
C6_CursorMonotoneInOrder ==
    [][\A e \in Execs :
          /\ next_action_index'[e] >= next_action_index[e]
          /\ next_action_index'[e] \in 0..Len(role.actions)
          /\ Len(log'[e]) = next_action_index'[e]
          /\ \A i \in 1..Len(log'[e]) : log'[e][i].idx = i - 1]_execVars

\* An execution that halted Blocked, was resumed and then completed
C6_Witness ==
    \E e \in Execs :
        /\ resumed[e]
        /\ next_action_index[e] = 2
        /\ Len(log[e]) = 2

(***************************************************************************)
(* Claims about Promise, checked under SpecPromise.                        *)
(***************************************************************************)
Min(a, b) == IF a <= b THEN a ELSE b

\* C7: for a Plan with two promised-argument positions bound to promises P
\* and Q, after any sequence of keep(P, .) and keep(Q, .) calls the number
\* of firings equals min(keeps on P, keeps on Q), and each firing has
\* consumed one fulfillment of P and one of Q.
C7_FiresOncePerPair ==
    (cfg = CfgPair /\ flags.pureKeeps) =>
        /\ nFired[1] = Min(count.appended["P"], count.appended["Q"])
        /\ count.firePops["P"] = nFired[1]
        /\ count.firePops["Q"] = nFired[1]

\* C8: each fulfillment is consumed at most once: an object a plan firing
\* took from the front of a promise's queue is never passed to a second
\* firing, is never returned by a later value() on that promise, and is no
\* longer in the store after the firing.
C8_ConsumedAtMostOnce ==
    ~flags.reused /\ ~flags.valueReused /\ ~flags.leftInStore

\* C9 as stated: the length of a promise's queue equals N - M, N the number
\* of successful keep() calls on it and M the number of value() calls on it
\* that returned an object.
C9_LengthIsKeepsMinusValues ==
    \A p \in Promises :
        Len(queue_obj_ids[p]) = count.kept[p] - count.valueRet[p]

\* C9 as amended: the length of a promise's queue equals the number of ids
\* keep() appended to it minus the number of front entries removed from it,
\* by value() on a non-empty queue or by a plan firing that consumed them.
C9_LengthIsAppendsMinusPops ==
    \A p \in Promises :
        Len(queue_obj_ids[p]) = count.appended[p]
                          - (count.valueRet[p] + count.valueRaised[p])
                          - count.firePops[p]

\* A promise with a queued entry left after a firing and a value() call
\* each took one
C9_Witness ==
    \E p \in Promises :
        /\ count.firePops[p] > 0
        /\ count.valueRet[p] > 0
        /\ Len(queue_obj_ids[p]) > 0

\* C10: keep(promise, obj) with an obj whose type differs from
\* promise.obj_type fails with a type error and changes nothing: every
\* promise's queue and the store are as before the call and no plan fires.
C10_TypeMismatchChangesNothing ==
    [][( /\ last'.op = "keep"
         /\ nOps' = nOps + 1
         /\ ObjType(last'.id) # cfg.obj_type[last'.p] ) =>
          /\ last'.status = "TypeError"
          /\ queue_obj_ids' = queue_obj_ids
          /\ owner_objects' = owner_objects
          /\ nFired' = nFired
          /\ count' = count]_vars

\* A str object was kept on an int promise whose queue is empty
C10_Witness ==
    /\ last.op = "keep"
    /\ last.status = "TypeError"
    /\ ObjType(last.id) = "str"
    /\ cfg.obj_type[last.p] = "int"
    /\ queue_obj_ids[last.p] = <<>>

(***************************************************************************)
(* Further claims about Promise.keep and Promise.value, checked under      *)
(* SpecPromise.                                                            *)
(***************************************************************************)
\* The step is a keep() call that returned its object
KeepReturned == last'.op = "keep" /\ nOps' = nOps + 1 /\ last'.status = "ok"

\* C11: after a keep(promise, obj) that returned and fired no plan, obj.id
\* is the last entry of the promise's queue and obj is in the owner's store
\* under obj.id, whether or not it was there before the call and whether or
\* not the promise itself is registered in the store.
C11_KeptObjectQueuedAndStored ==
    [][(KeepReturned /\ nFired' = nFired) =>
          /\ queue_obj_ids'[last'.p] = Append(queue_obj_ids[last'.p], last'.id)
          /\ last'.id \in owner_objects']_vars

\* The step is a value() call
ValueCalled == last'.op = "value" /\ nOps' = nOps + 1

\* C12: value() is a non-blocking FIFO pop: on a non-empty queue it returns
\* the object whose id is at the front, removes that id from the queue and
\* that object from the store; on an empty queue it returns no value and
\* changes neither the queue nor the store.
C12_ValueIsFifoPop ==
    [][ValueCalled =>
          IF queue_obj_ids[last'.p] = <<>>
          THEN /\ last'.status = "None"
               /\ queue_obj_ids' = queue_obj_ids
               /\ owner_objects' = owner_objects
          ELSE /\ last'.status = "ok"
               /\ last'.id = queue_obj_ids[last'.p][1]
               /\ queue_obj_ids' =
                     [queue_obj_ids EXCEPT ![last'.p] = Tail(@)]
               /\ owner_objects' = owner_objects \ {last'.id}]_vars

\* No plan has every promised argument kept, the queues being q
NoRunnablePlan(q) ==
    \A pid \in DOMAIN cfg.plans :
        ~HasArgsFulfilled([queue_obj_ids |-> q], PlanOf(pid))

\* Every plan is in the plans of each promise it depends on
AllRegistered ==
    \A pid \in DOMAIN cfg.plans :
        \A p \in Range(PromisedArgs(PlanOf(pid))) :
            pid \in Range(cfg.waiting[p])

RECURSIVE SumTo(_, _)
SumTo(f, n) == IF n = 0 THEN 0 ELSE f[n] + SumTo(f, n - 1)

\* In the step: how often plan pid was invoked, how many results were
\* kept in promise p, and how many entries firings took from p's queue
FiredIn(pid) == nFired'[pid] - nFired[pid]
ResultsKeptIn(p) ==
    SumTo([pid \in DOMAIN cfg.plans |->
             IF PlanOf(pid).promise_out_id = p THEN FiredIn(pid) ELSE 0],
          Len(cfg.plans))
TakenFrom(p) ==
    SumTo([pid \in DOMAIN cfg.plans |->
             FiredIn(pid) *
             Cardinality({k \in DOMAIN PromisedArgs(PlanOf(pid)) :
                            PromisedArgs(PlanOf(pid))[k] = p})],
          Len(cfg.plans))

\* C13: from a state in which no plan is runnable and every plan is in the
\* plans of each promise it depends on, when a top-level keep() returns,
\* every firing it triggered has completed (it took one entry per promised
\* position and kept its result in its output promise) and no plan is left
\* with all of its promised arguments kept.
C13_KeepReturnsFullyCascaded ==
    [][(KeepReturned /\ AllRegistered /\ NoRunnablePlan(queue_obj_ids)) =>
          /\ NoRunnablePlan(queue_obj_ids')
          /\ \A p \in Promises :
                /\ count'.firePops[p] - count.firePops[p] = TakenFrom(p)
                /\ count'.appended[p] - count.appended[p] =
                      ResultsKeptIn(p) + (IF p = last'.p THEN 1 ELSE 0)]_vars

\* keep(Q, .) and then keep(P, .) were called, the second fired plan 1,
\* whose result kept in R fired plan 2, whose result is in S
C13_Witness ==
    /\ cfg = CfgChain
    /\ nOps = 2
    /\ last.op = "keep" /\ last.p = "P" /\ last.status = "ok"
    /\ count.kept["Q"] = 1
    /\ nFired[1] = 1 /\ nFired[2] = 1
    /\ queue_obj_ids["R"] = <<>>
    /\ queue_obj_ids["S"] = <<nextId - 1>>

\* C14: a Plan whose promised_args mapping is empty is never fired by
\* keep(), also when its id is in the plans of the promise that is kept.
C14_NoPromisedArgsNeverFires ==
    \A pid \in DOMAIN cfg.plans :
        PromisedArgs(PlanOf(pid)) = <<>> => nFired[pid] = 0

\* C19: in every state reached by keep(), value() and plan firings, every
\* object id in a promise's queue is in the owner's store, and value()
\* never fails on a missing object when it reads the front of a non-empty
\* queue.
C19_QueuedIdsAreStored ==
    /\ \A p \in Promises :
          \A i \in 1..Len(queue_obj_ids[p]) :
              queue_obj_ids[p][i] \in owner_objects
    /\ last.op = "value" => last.status # "KeyError"

\* C20: when a keep() call fails with a type error raised anywhere in its
\* cascade (the result of a fired plan has not the obj_type of the plan's
\* output promise), every promise's queue and the store are as they were
\* before the outermost keep() call.
C20_CascadeTypeErrorRollsBack ==
    [][( /\ last'.op = "keep"
         /\ nOps' = nOps + 1
         /\ last'.status = "TypeError" ) =>
          /\ queue_obj_ids' = queue_obj_ids
          /\ owner_objects' = owner_objects]_vars

(***************************************************************************)
(* Further claims about RunClassMethodService.                             *)
(***************************************************************************)
\* C15: process() resolves every keyword argument by the rule of the
\* positional arguments and calls the method with all of them: for every
\* key of msg.kwargs the method receives that key bound to the resolved
\* value.  (Checked under SpecKwargs.)
C15_KwargsResolvedAndPassed ==
    [][outcome' = "ok" =>
          /\ Len(handed'.kwargs) = Len(lastMsg'.kwargs)
          /\ \A i \in 1..Len(lastMsg'.kwargs) :
                /\ handed'.kwargs[i].name = lastMsg'.kwargs[i].name
                /\ handed'.kwargs[i].value =
                      Resolve(lastNode', lastMsg'.kwargs[i].value)]_invokeVars

\* C16: a process() call that fails with NotFound or with MethodNotFound
\* writes nothing: no entry is created or overwritten under the result id
\* and every other store entry is unchanged.  (Checked under SpecInvoke.)
C16_FailedInvokeWritesNothing ==
    [][outcome' \in {"NotFound", "MethodNotFound"} =>
          store' = store]_invokeVars

\* A call failed for its unknown method path on a node whose store holds
\* an entry under the call's result id
C16_Witness ==
    /\ outcome = "MethodNotFound"
    /\ HasObject(store[lastNode], lastMsg.id_at_location)
    /\ \E i \in 1..Len(lastMsg.args) : lastMsg.args[i].ptr

\* The caller whose call was the last to store under its result id
IsLastWriter(c) ==
    \A d \in Callers \ {c} :
        \/ calls[d].msg.id_at_location # calls[c].msg.id_at_location
        \/ ~\E i, j \in 1..Len(stored_order) :
              i < j /\ stored_order[i] = c /\ stored_order[j] = d

\* C17: a successful process() call stores the method's return value
\* under the result id, overwriting any previous entry; however two calls
\* on one node interleave, with different result ids each result is stored
\* under its own id, and with one result id the store holds the complete
\* return value of the call that stored last, never a mixture and never a
\* missing entry.  (Checked under SpecInterleaved.)
C17_LastWriterWins ==
    \A c \in Callers :
        calls[c].pc = "done" =>
            /\ HasObject(store[CallNode], calls[c].msg.id_at_location)
            /\ IsLastWriter(c) =>
                  GetObject(store[CallNode], calls[c].msg.id_at_location)
                      = calls[c].result

\* Both calls stored under id 7, which held 99 before, results that differ
C17_Witness ==
    /\ \A c \in Callers :
          calls[c].pc = "done" /\ calls[c].msg.id_at_location = 7
    /\ calls["c1"].result # calls["c2"].result
    /\ stored_order = <<"c2", "c1">>
    /\ store[CallNode][7] = 42

(***************************************************************************)
(* Promise serialization, checked under SpecSerde.                         *)
(***************************************************************************)
\* C18: simplify(p) yields the tuple (id, obj_type, serialized plans), and
\* detail(worker, simplify(p)) yields a Promise with the id, the obj_type
\* and the set of plan ids of p, for every promise p.
C18_SerializationRoundTrips ==
    /\ wire.op = "simplify" =>
          wire.status = "ok" /\ wire.tuple = WireTuple(wire.promise)
    /\ (wire.op = "detail" /\ wire.tuple = WireTuple(wire.promise)) =>
          /\ wire.status = "ok"
          /\ wire.detailed.id = wire.promise.id
          /\ wire.detailed.obj_type = wire.promise.obj_type
          /\ wire.detailed.plans = wire.promise.plans

(***************************************************************************)
(* Termination of the cascade, checked under SpecPromise.                  *)
(***************************************************************************)
\* C21: every keep() call terminates: for any promises and plans, also a
\* plan whose output promise is one of its own promised inputs and plans
\* feeding each other's input promises, the cascade of one keep() performs
\* finitely many firings and then returns; no keep() ends in a recursion
\* that only the recursion limit stops.
C21_KeepTerminates ==
    last.op = "keep" => last.status # "RecursionError"

====
